---- MODULE Spec2Model ----
(***************************************************************************)
(* az-storage-cleaner: listing of a blob container, grouping of the        *)
(* root-level blobs by base name, ordering of the groups, retention split, *)
(* report generation (index.ts), and the blob deletion utility.            *)
(*                                                                         *)
(* A string is a sequence of one-character strings, so that indexOf,       *)
(* substring, includes, replace and localeCompare are computed as the      *)
(* program computes them.  A Date is the integer getTime() returns; an     *)
(* absent lastModified is Undefined.                                       *)
(***************************************************************************)
EXTENDS Integers, Sequences, FiniteSets, TLC

\* ------------------------------------------------------------------ bounds

\* Longest listing the storage service yields in one run.
MaxBlobs == 6

\* Longest list of names handed to removeAzFilesFromContainer.
MaxDel == 3

\* ------------------------------------------------------------- data model

\* FileInfo.lastModified: Date | undefined.
Undefined == -1

FileInfo(n, t) == [name |-> n, lastModified |-> t]

Min(x, y) == IF x < y THEN x ELSE y

\* ---------------------------------------------------------------- strings

\* String.prototype.indexOf(c): 0-based index of the first occurrence, or -1.
IndexOf(s, c) ==
    IF \E i \in DOMAIN s : s[i] = c
    THEN (CHOOSE i \in DOMAIN s : s[i] = c /\ \A j \in 1..(i - 1) : s[j] # c) - 1
    ELSE -1

\* String.prototype.substring(start, end): negative arguments count as 0,
\* arguments beyond the length count as the length, and the two are swapped
\* when start > end.
Clamp(s, i) == IF i < 0 THEN 0 ELSE IF i > Len(s) THEN Len(s) ELSE i

Substring(s, start, end) ==
    LET a == Clamp(s, start)
        b == Clamp(s, end)
        lo == Min(a, b)
        hi == IF a < b THEN b ELSE a
    IN  SubSeq(s, lo + 1, hi)

\* String.prototype.includes(c).
Includes(s, c) == \E i \in DOMAIN s : s[i] = c

\* Array.prototype.slice(start, end) with the negative indices the program uses.
Slice(a, start, end) ==
    LET n == Len(a)
        from == IF start < 0 THEN (IF n + start < 0 THEN 0 ELSE n + start) ELSE Min(start, n)
        to == IF end < 0 THEN (IF n + end < 0 THEN 0 ELSE n + end) ELSE Min(end, n)
    IN  SubSeq(a, from + 1, to)

\* Characters the sanitising pattern /[^a-zA-Z0-9-.]/g leaves alone.
SafeChars ==
    {"a", "b", "c", "d", "e", "f", "g", "h", "i", "j", "k", "l", "m",
     "n", "o", "p", "q", "r", "s", "t", "u", "v", "w", "x", "y", "z",
     "A", "B", "C", "D", "E", "F", "G", "H", "I", "J", "K", "L", "M",
     "N", "O", "P", "Q", "R", "S", "T", "U", "V", "W", "X", "Y", "Z",
     "0", "1", "2", "3", "4", "5", "6", "7", "8", "9", "-", "."}

\* groupKey.replace(/[^a-zA-Z0-9-.]/g, '_')
SafeGroupKey(groupKey) ==
    [i \in DOMAIN groupKey |-> IF groupKey[i] \in SafeChars THEN groupKey[i] ELSE "_"]

OutputDir == <<"o", "u", "t", "p", "u", "t">>
TxtExt == <<".", "t", "x", "t">>

\* path.join(outputDir, `${safeGroupKey}.txt`) with outputDir = './output'.
OutputFilePath(groupKey) == OutputDir \o <<"/">> \o SafeGroupKey(groupKey) \o TxtExt

EarliestTotalsPath ==
    OutputDir \o <<"/">> \o
    <<"e", "a", "r", "l", "i", "e", "s", "t", "_", "t", "o", "t", "a", "l", "s">> \o TxtExt

AllDataCsvPath ==
    <<".", "/">> \o OutputDir \o <<"/">> \o
    <<"a", "l", "l", "d", "a", "t", "a", ".", "c", "s", "v">>

AllDataJsonPath ==
    <<".", "/">> \o OutputDir \o <<"/">> \o
    <<"a", "l", "l", "d", "a", "t", "a", ".", "j", "s", "o", "n">>

\* Collation order of the characters that occur in blob names of the model
\* (white space, punctuation, digits, letters), as localeCompare orders them.
CollationOrder ==
    <<" ", "_", "-", ".", "/",
      "0", "1", "2", "3", "4", "5", "6", "7", "8", "9",
      "a", "b", "c", "d", "e", "f", "g", "h", "i", "j", "k", "l", "m",
      "n", "o", "p", "q", "r", "s", "t", "u", "v", "w", "x", "y", "z">>

Rank ==
    [c \in {CollationOrder[i] : i \in DOMAIN CollationOrder} |->
        CHOOSE i \in DOMAIN CollationOrder : CollationOrder[i] = c]

CharRank(c) == Rank[c]

\* a.localeCompare(b): negative, zero or positive.
RECURSIVE LocaleCompareFrom(_, _, _)
LocaleCompareFrom(a, b, i) ==
    IF i > Len(a) /\ i > Len(b) THEN 0
    ELSE IF i > Len(a) THEN -1
    ELSE IF i > Len(b) THEN 1
    ELSE IF CharRank(a[i]) < CharRank(b[i]) THEN -1
    ELSE IF CharRank(a[i]) > CharRank(b[i]) THEN 1
    ELSE LocaleCompareFrom(a, b, i + 1)

LocaleCompare(a, b) == LocaleCompareFrom(a, b, 1)

\* ---------------------------------------------------------- key derivation

\* getGroupKey: substring(0, indexOf('.')).
GetGroupKey(filename) ==
    LET firstDotIndex == IndexOf(filename, ".")
    IN  Substring(filename, 0, firstDotIndex)

\* Variant: no blob counts as nested.
IsNestedNever(name) == FALSE

\* blob.name.includes('/')
IsNested(name) == Includes(name, "/")

\* ------------------------------------------------------ earliest timestamp

\* findEarliestDateInGroup: the loop over the files, earliestDate carried along.
RECURSIVE EarliestFrom(_, _, _)
EarliestFrom(files, i, earliestDate) ==
    IF i > Len(files) THEN earliestDate
    ELSE LET lm == files[i].lastModified
         IN  IF lm # Undefined /\ (earliestDate = Undefined \/ lm < earliestDate)
             THEN EarliestFrom(files, i + 1, lm)
             ELSE EarliestFrom(files, i + 1, earliestDate)

FindEarliestDateInGroup(files) == EarliestFrom(files, 1, Undefined)

\* ------------------------------------------------------------- comparators

\* Variant: the two returns for an absent date exchanged.
CompareGroupsAbsentFirst(a, b) ==
    LET earliestA == FindEarliestDateInGroup(a.files)
        earliestB == FindEarliestDateInGroup(b.files)
    IN  IF earliestA = Undefined /\ earliestB = Undefined THEN 0
        ELSE IF earliestA = Undefined THEN -1
        ELSE IF earliestB = Undefined THEN 1
        ELSE earliestA - earliestB

\* The comparator of the group sort (a and b are [key, files] entries).
CompareGroups(a, b) ==
    LET earliestA == FindEarliestDateInGroup(a.files)
        earliestB == FindEarliestDateInGroup(b.files)
    IN  IF earliestA = Undefined /\ earliestB = Undefined THEN 0
        ELSE IF earliestA = Undefined THEN 1
        ELSE IF earliestB = Undefined THEN -1
        ELSE earliestA - earliestB

\* The comparator of the in-group sort.
CompareNames(a, b) == LocaleCompare(a.name, b.name)

\* The comparator of the sort of earliestTotals.
CompareLastModified(a, b) ==
    IF a.lastModified = Undefined \/ b.lastModified = Undefined THEN 0
    ELSE a.lastModified - b.lastModified

Compare(cmp, a, b) ==
    CASE cmp = "groups" -> CompareGroups(a, b)
      [] cmp = "names" -> CompareNames(a, b)
      [] cmp = "lastModified" -> CompareLastModified(a, b)

\* ------------------------------------------------------ Array.prototype.sort

(***************************************************************************)
(* Array.prototype.sort(comparator), computed the way V8 computes it for   *)
(* arrays of fewer than 64 elements: the run that starts the array is      *)
(* found (and reversed when it is strictly descending), and the elements   *)
(* after it are inserted one by one by binary insertion.  The sort is      *)
(* stable.  With a comparator that is no consistent ordering               *)
(* (CompareLastModified, when a lastModified is absent) the result is      *)
(* whatever these steps leave.                                             *)
(***************************************************************************)
Reverse(a) == [i \in DOMAIN a |-> a[Len(a) + 1 - i]]

\* CountAndMakeRun: the length of the run that starts the array; idx is the
\* (1-based) position of the next element to look at.
RECURSIVE RunLengthFrom(_, _, _, _)
RunLengthFrom(cmp, a, isDescending, idx) ==
    IF idx > Len(a) THEN Len(a)
    ELSE LET order == Compare(cmp, a[idx], a[idx - 1])
         IN  IF isDescending
             THEN IF order >= 0 THEN idx - 1 ELSE RunLengthFrom(cmp, a, isDescending, idx + 1)
             ELSE IF order < 0 THEN idx - 1 ELSE RunLengthFrom(cmp, a, isDescending, idx + 1)

\* The binary search of BinaryInsertionSort; left and right are 0-based.
RECURSIVE InsertionPoint(_, _, _, _, _)
InsertionPoint(cmp, a, pivot, left, right) ==
    IF left < right
    THEN LET mid == left + ((right - left) \div 2)
             order == Compare(cmp, pivot, a[mid + 1])
         IN  IF order < 0
             THEN InsertionPoint(cmp, a, pivot, left, mid)
             ELSE InsertionPoint(cmp, a, pivot, mid + 1, right)
    ELSE left

\* BinaryInsertionSort: a[0..start) is sorted; start is 0-based.
RECURSIVE BinaryInsertionSort(_, _, _)
BinaryInsertionSort(cmp, a, start) ==
    IF start >= Len(a) THEN a
    ELSE LET pivot == a[start + 1]
             left == InsertionPoint(cmp, a, pivot, 0, start)
             moved == SubSeq(a, 1, left) \o <<pivot>> \o SubSeq(a, left + 1, start)
                      \o SubSeq(a, start + 2, Len(a))
         IN  BinaryInsertionSort(cmp, moved, start + 1)

TimSort(cmp, a) ==
    IF Len(a) < 2 THEN a
    ELSE LET isDescending == Compare(cmp, a[2], a[1]) < 0
             runLength == RunLengthFrom(cmp, a, isDescending, 3)
             withRun == IF isDescending
                        THEN Reverse(SubSeq(a, 1, runLength)) \o SubSeq(a, runLength + 1, Len(a))
                        ELSE a
         IN  BinaryInsertionSort(cmp, withRun, runLength)

ArraySort(cmp, a) == TimSort(cmp, a)

\* ------------------------------------------------------- the grouping map

\* Map<string, FileInfo[]> as the sequence of its [key, files] entries in
\* insertion order, which is the order Map.entries() iterates in.
MapHas(map, key) == \E i \in DOMAIN map : map[i].key = key

\* if (!has(groupKey)) set(groupKey, []); get(groupKey).push(fileInfo)
PushToGroup(map, groupKey, fileInfo) ==
    IF MapHas(map, groupKey)
    THEN [i \in DOMAIN map |->
            IF map[i].key = groupKey
            THEN [map[i] EXCEPT !.files = Append(@, fileInfo)]
            ELSE map[i]]
    ELSE Append(map, [key |-> groupKey, files |-> <<fileInfo>>])

\* ---------------------------------------------------------- configuration

\* The container name after the two remappings of listAndGroupContainerFiles:
\* "web" becomes "$web" before the checks; after them "web" or "log" gets a
\* "$" prefix (by then "web" is already "$web").
ResolveContainerName(name) ==
    LET first == IF name = "web" THEN "$web" ELSE name
    IN  IF first = "web" THEN "$web"
        ELSE IF first = "log" THEN "$log"
        ELSE first

\* Variant: only the connection string is checked.
ConfigMissingConnectionOnly(conn, name) == conn = ""

\* if (!connectionString) return undefined; if (!containerName) return undefined;
\* an unset or empty environment variable is falsy.
ConfigMissing(conn, name) == conn = "" \/ name = ""

\* ---------------------------------------------------------- retention split

\* Variant: the slice is taken after the sort by name.
ExcessOfSortedByName(filesInGroup) == Slice(ArraySort("names", filesInGroup), 0, -2)

\* filesInGroup.slice(0, -2): what a qualifying group adds to earliestTotals.
ExcessOf(filesInGroup) == Slice(filesInGroup, 0, -2)

\* Variant: the gate lets groups of two through.
QualifiesFromTwo(filesInGroup) == ~(Len(filesInGroup) < 2)

\* if (filesInGroup.length < 3) continue;
Qualifies(filesInGroup) == ~(Len(filesInGroup) < 3)

\* ------------------------------------------------------------------ inputs

ConnectionStrings == {"", "UseDevelopmentStorage=true"}
ContainerNames == {"", "web"}

\* Blobs the storage service may report in the runs of Spec: two groups whose
\* keys differ only in a character the sanitiser replaces, with defined and
\* absent timestamps, a name with several dots, and a nested blob.
MainPool ==
    { FileInfo(<<"a", " ", "b", ".", "b">>, 2),
      FileInfo(<<"a", " ", "b", ".", "a">>, Undefined),
      FileInfo(<<"a", " ", "b", ".", "c">>, 1),
      FileInfo(<<"a", "_", "b", ".", "a", ".", "z">>, 1),
      FileInfo(<<"a", "_", "b", ".", "b">>, 2),
      FileInfo(<<"a", "_", "b", ".", "c">>, Undefined),
      FileInfo(<<"d", "/", "a", ".", "b">>, 1) }

\* Blobs of the runs of SpecExcess: one group, large enough for an excess
\* list of four, with defined and absent timestamps.
ExcessPool ==
    { FileInfo(<<"m", ".", "a">>, 2),
      FileInfo(<<"m", ".", "b">>, Undefined),
      FileInfo(<<"m", ".", "c">>, Undefined),
      FileInfo(<<"m", ".", "d">>, 1),
      FileInfo(<<"m", ".", "e">>, 2),
      FileInfo(<<"m", ".", "f">>, 1) }

\* Blobs of the runs of SpecKeys: names with several dots, with a leading
\* dot, without a dot, and a nested one; three groups, one without a timestamp.
KeyPool ==
    { FileInfo(<<"m", ".", "a", ".", "z">>, 1),
      FileInfo(<<"p", "-", "2", ".", "j">>, Undefined),
      FileInfo(<<"x">>, 1),
      FileInfo(<<"y", "z">>, 2),
      FileInfo(<<".", "e">>, 1),
      FileInfo(<<"d", "/", "x">>, 1) }

\* Blobs of the runs of SpecOrder: a group without any timestamp, a group
\* whose earliest timestamp depends on which of its blobs are listed (absent,
\* 1 or 2), and a group of one blob with timestamp 1.  Two groups can both be
\* without a timestamp, two can have the same earliest timestamp, and two can
\* both have three records.
OrderPool ==
    { FileInfo(<<"u", ".", "a">>, Undefined),
      FileInfo(<<"u", ".", "b">>, Undefined),
      FileInfo(<<"u", ".", "c">>, Undefined),
      FileInfo(<<"w", ".", "a">>, 2),
      FileInfo(<<"w", ".", "b">>, 1),
      FileInfo(<<"w", ".", "c">>, Undefined),
      FileInfo(<<"x", ".", "a">>, 1) }

\* Names handed to removeAzFilesFromContainer (a name may occur twice).
DelNames == {<<"a", ".", "b">>, <<"c">>}

SeqsUpTo(S, n) == UNION {[1..k -> S] : k \in 0..n}

\* ------------------------------------------------------------------- state

VARIABLES
    pc,                    \* where the run is
    connectionString,      \* process.env.AZURE_STORAGE_CONNECTION_STRING
    containerName,         \* process.env.AZURE_STORAGE_CONTAINER_NAME / the argument
    pool,                  \* blobs the storage service may report
    calls,                 \* calls made on the storage client, in order
    listed,                \* blobs listBlobsFlat() has yielded so far
    groupedFiles,          \* the Map of listAndGroupContainerFiles
    totalFilesConsidered,
    nestedFileCount,
    grouped,               \* main's `grouped` is a Map (TRUE) or undefined (FALSE)
    dirCreated,            \* fs.mkdirSync(outputDir) was called
    sortedGroupEntries,    \* the sorted [key, files] entries
    g,                     \* position of the save loop in sortedGroupEntries
    earliestTotals,
    alldata,
    filesSavedCount,
    writes,                \* file writes attempted, in order, with their outcome
    azFiles,               \* removeAzFilesFromContainer: the names
    delIdx,                \* removeAzFilesFromContainer: position of the loop
    deleted                \* blobClient.delete() calls, in order, with their outcome

vars ==
    <<pc, connectionString, containerName, pool, calls, listed, groupedFiles,
      totalFilesConsidered, nestedFileCount, grouped, dirCreated,
      sortedGroupEntries, g, earliestTotals, alldata, filesSavedCount, writes,
      azFiles, delIdx, deleted>>

listVars == <<listed, groupedFiles, totalFilesConsidered, nestedFileCount>>
saveVars == <<dirCreated, sortedGroupEntries, g, earliestTotals, alldata, filesSavedCount, writes>>
delVars == <<azFiles, delIdx, deleted>>
envVars == <<connectionString, containerName, pool>>

Blank ==
    /\ calls = <<>>
    /\ listed = <<>>
    /\ groupedFiles = <<>>
    /\ totalFilesConsidered = 0
    /\ nestedFileCount = 0
    /\ grouped = FALSE
    /\ dirCreated = FALSE
    /\ sortedGroupEntries = <<>>
    /\ g = 1
    /\ earliestTotals = <<>>
    /\ alldata = <<>>
    /\ filesSavedCount = 0
    /\ writes = <<>>
    /\ delIdx = 1
    /\ deleted = <<>>

\* index.ts starts: main() is called with the environment of the process.
InitWith(blobs) ==
    /\ Blank
    /\ pc = "start"
    /\ connectionString \in ConnectionStrings
    /\ containerName \in ContainerNames
    /\ pool = blobs
    /\ azFiles = <<>>

\* removeAzFilesFromContainer(containerName, azFiles, blobServiceClient) is called.
InitRemove ==
    /\ Blank
    /\ pc = "remove"
    /\ connectionString = ""
    /\ containerName = "data"
    /\ pool = {}
    /\ azFiles \in SeqsUpTo(DelNames, MaxDel)

Init == InitWith(MainPool)

InitExcess == InitWith(ExcessPool)

InitKeys == InitWith(KeyPool)

InitOrder == InitWith(OrderPool)

\* ------------------------------------------- listAndGroupContainerFiles

ClientCall(op, arg) == [op |-> op, arg |-> arg]

\* Lines 62-76: the environment is read and checked before anything else.
CheckConfig ==
    /\ pc = "start"
    /\ pc' = IF ConfigMissing(connectionString, ResolveContainerName(containerName))
             THEN "returned"
             ELSE "connect"
    /\ UNCHANGED <<envVars, calls, grouped, listVars, saveVars, delVars>>

\* Lines 78-87: the clients are made and exists() is called; the function then
\* awaits its answer.  fromConnectionString or getContainerClient may throw
\* (caught at line 131) before the later calls are made.
Connect ==
    /\ pc = "connect"
    /\ \E outcome \in {"awaiting", "fromConnectionStringThrows", "getContainerClientThrows"} :
         LET service == ClientCall("fromConnectionString", connectionString)
             container == ClientCall("getContainerClient", ResolveContainerName(containerName))
         IN  CASE outcome = "fromConnectionStringThrows" ->
                    /\ calls' = calls \o <<service>>
                    /\ pc' = "returned"
               [] outcome = "getContainerClientThrows" ->
                    /\ calls' = calls \o <<service, container>>
                    /\ pc' = "returned"
               [] outcome = "awaiting" ->
                    /\ calls' = calls \o <<service, container, ClientCall("exists", "")>>
                    /\ pc' = "exists"
    /\ UNCHANGED <<envVars, grouped, listVars, saveVars, delVars>>

\* Lines 87-99: exists() answers true, and the listing is opened, or it
\* answers false or throws (caught at line 131), and undefined is returned.
ExistsSettles ==
    /\ pc = "exists"
    /\ \E outcome \in {"exists", "missing", "throws"} :
         IF outcome = "exists"
         THEN /\ calls' = Append(calls, ClientCall("listBlobsFlat", ""))
              /\ pc' = "listing"
         ELSE /\ pc' = "returned"
              /\ UNCHANGED calls
    /\ UNCHANGED <<envVars, grouped, listVars, saveVars, delVars>>

\* Lines 99-118: one iteration of the for-await loop; the service yields a
\* blob it has not yielded before.
ListBlob ==
    /\ pc = "listing"
    /\ Len(listed) < MaxBlobs
    /\ \E blob \in pool :
         /\ \A i \in DOMAIN listed : listed[i].name # blob.name
         /\ listed' = Append(listed, blob)
         /\ totalFilesConsidered' = totalFilesConsidered + 1
         /\ IF IsNested(blob.name)
            THEN /\ nestedFileCount' = nestedFileCount + 1
                 /\ UNCHANGED groupedFiles
            ELSE /\ groupedFiles' = PushToGroup(groupedFiles, GetGroupKey(blob.name),
                                                FileInfo(blob.name, blob.lastModified))
                 /\ UNCHANGED nestedFileCount
    /\ UNCHANGED <<pc, envVars, calls, grouped, saveVars, delVars>>

\* Lines 131-143: the listing throws; the error is logged and undefined returned.
ListThrows ==
    /\ pc = "listing"
    /\ pc' = "returned"
    /\ UNCHANGED <<envVars, calls, grouped, listVars, saveVars, delVars>>

\* Lines 120-129: the listing is exhausted and the Map is returned.
ListEnd ==
    /\ pc = "listing"
    /\ grouped' = TRUE
    /\ pc' = "returned"
    /\ UNCHANGED <<envVars, calls, listVars, saveVars, delVars>>

\* ---------------------------------------------------------------------- main

\* Lines 17-23: the save phase is entered only with a Map.
Main ==
    /\ pc = "returned"
    /\ pc' = IF grouped THEN "save" ELSE "finished"
    /\ UNCHANGED <<envVars, calls, grouped, listVars, saveVars, delVars>>

\* ------------------------------------------------ reorderAndSaveGroupedFiles

WriteOf(kind, path, key, earliest, records, ok) ==
    [kind |-> kind, path |-> path, key |-> key, earliest |-> earliest,
     records |-> records, ok |-> ok]

\* Lines 156-181: the output directory is ensured (existsSync / mkdirSync, which
\* may throw into the catch of line 234) and the entries of the Map are sorted.
BeginSave ==
    /\ pc = "save"
    /\ \E dir \in {"exists", "created", "throws"} :
         IF dir = "throws"
         THEN /\ pc' = "finished"
              /\ dirCreated' = TRUE
              /\ UNCHANGED <<sortedGroupEntries, g>>
         ELSE /\ pc' = "saveLoop"
              /\ dirCreated' = (dir = "created")
              /\ sortedGroupEntries' = ArraySort("groups", groupedFiles)
              /\ g' = 1
    /\ UNCHANGED <<envVars, calls, grouped, listVars, earliestTotals, alldata,
                   filesSavedCount, writes, delVars>>

\* Lines 183-220: one iteration of the save loop, up to the call of Bun.write,
\* whose outcome the function then awaits.  The array of the group is the one
\* the Map holds, so the sort by name changes both.
SaveGroup ==
    /\ pc = "saveLoop"
    /\ g <= Len(sortedGroupEntries)
    /\ LET groupKey == sortedGroupEntries[g].key
           filesInGroup == sortedGroupEntries[g].files
       IN  IF ~Qualifies(filesInGroup)
           THEN /\ g' = g + 1
                /\ UNCHANGED <<pc, groupedFiles, sortedGroupEntries, earliestTotals,
                               alldata, writes>>
           ELSE /\ earliestTotals' =
                      IF Len(Slice(filesInGroup, 0, -2)) > 0
                      THEN earliestTotals \o ExcessOf(filesInGroup)
                      ELSE earliestTotals
                /\ \E ok \in BOOLEAN :
                     LET byName == ArraySort("names", filesInGroup)
                     IN  /\ sortedGroupEntries' =
                               [sortedGroupEntries EXCEPT ![g].files = byName]
                         /\ groupedFiles' =
                               [i \in DOMAIN groupedFiles |->
                                   IF groupedFiles[i].key = groupKey
                                   THEN [groupedFiles[i] EXCEPT !.files = byName]
                                   ELSE groupedFiles[i]]
                         /\ alldata' = alldata \o byName
                         /\ writes' = Append(writes,
                               WriteOf("group", OutputFilePath(groupKey), groupKey,
                                       FindEarliestDateInGroup(filesInGroup), byName, ok))
                         /\ pc' = "writing"
                         /\ UNCHANGED g
    /\ UNCHANGED <<envVars, calls, grouped, listed, totalFilesConsidered,
                   nestedFileCount, dirCreated, filesSavedCount, delVars>>

\* The outcome of the write the function is awaiting.
LastWriteOk == writes[Len(writes)].ok

\* Lines 220-223: Bun.write resolves, the report is counted and the loop goes
\* on; or it rejects, which ends the function in the catch of line 234.
WriteSettles ==
    /\ pc = "writing"
    /\ IF LastWriteOk
       THEN /\ filesSavedCount' = filesSavedCount + 1
            /\ g' = g + 1
            /\ pc' = "saveLoop"
       ELSE /\ pc' = "finished"
            /\ UNCHANGED <<filesSavedCount, g>>
    /\ UNCHANGED <<envVars, calls, grouped, listVars, dirCreated, sortedGroupEntries,
                   earliestTotals, alldata, writes, delVars>>

\* Lines 225-226: after the loop writeToCsv is called, if there is anything
\* to export, and awaited.
ExportCsv ==
    /\ pc = "saveLoop"
    /\ g > Len(sortedGroupEntries)
    /\ IF Len(alldata) > 0
       THEN /\ \E ok \in BOOLEAN :
                 writes' = Append(writes,
                    WriteOf("csv", AllDataCsvPath, <<>>, Undefined, alldata, ok))
            /\ pc' = "csv"
       ELSE /\ pc' = "saveEarliest"
            /\ UNCHANGED writes
    /\ UNCHANGED <<envVars, calls, grouped, listVars, dirCreated, sortedGroupEntries,
                   g, earliestTotals, alldata, filesSavedCount, delVars>>

\* Lines 226-227: writeToCsv resolves and writeToJson is called and awaited;
\* or writeToCsv rejects (catch of line 234).
ExportJson ==
    /\ pc = "csv"
    /\ IF LastWriteOk
       THEN /\ \E ok \in BOOLEAN :
                 writes' = Append(writes,
                    WriteOf("json", AllDataJsonPath, <<>>, Undefined, alldata, ok))
            /\ pc' = "json"
       ELSE /\ pc' = "finished"
            /\ UNCHANGED writes
    /\ UNCHANGED <<envVars, calls, grouped, listVars, dirCreated, sortedGroupEntries,
                   g, earliestTotals, alldata, filesSavedCount, delVars>>

\* Lines 227-233: writeToJson resolves and saveEarliestFileRecords is called;
\* or it rejects (catch of line 234).
JsonSettles ==
    /\ pc = "json"
    /\ pc' = IF LastWriteOk THEN "saveEarliest" ELSE "finished"
    /\ UNCHANGED <<envVars, calls, grouped, listVars, saveVars, delVars>>

\* Lines 233 and 246-263: saveEarliestFileRecords is called; with records to
\* report it sorts earliestTotals in place and calls Bun.write, whose outcome
\* it then awaits; without any it returns at once.
SaveEarliestFileRecords ==
    /\ pc = "saveEarliest"
    /\ IF Len(earliestTotals) > 0
       THEN /\ \E ok \in BOOLEAN :
                 /\ earliestTotals' = ArraySort("lastModified", earliestTotals)
                 /\ writes' = Append(writes,
                       WriteOf("earliest", EarliestTotalsPath, <<>>, Undefined,
                               earliestTotals', ok))
            /\ pc' = "earliestWriting"
       ELSE /\ pc' = "finished"
            /\ UNCHANGED <<earliestTotals, writes>>
    /\ UNCHANGED <<envVars, calls, grouped, listVars, dirCreated, sortedGroupEntries,
                   g, alldata, filesSavedCount, delVars>>

\* Lines 263-264, 233-241 and 23: Bun.write resolves and the function returns,
\* or it rejects into the catch of line 234; either way main goes on to its end.
EarliestSettles ==
    /\ pc = "earliestWriting"
    /\ pc' = "finished"
    /\ UNCHANGED <<envVars, calls, grouped, listVars, saveVars, delVars>>

\* ------------------------------------------------ removeAzFilesFromContainer

\* Line 8: getContainerClient is called.  It is outside any try: when it throws,
\* the promise of the call rejects and no name is looked at.
RemoveBegin ==
    /\ pc = "remove"
    /\ calls' = Append(calls, ClientCall("getContainerClient", containerName))
    /\ \E outcome \in {"returns", "throws"} :
         pc' = IF outcome = "returns" THEN "deleting" ELSE "rejected"
    /\ UNCHANGED <<envVars, grouped, listVars, saveVars, delVars>>

\* The position of the loop after the deletion of azFiles[idx] succeeded or threw.
AfterDelete(names, idx, ok) == idx + 1

\* Lines 10-13: one iteration, up to the call of delete(), whose outcome the
\* function then awaits.  getBlobClient (line 11) is outside the try of lines
\* 12-17: when it throws, the promise of the call rejects and the names that
\* follow are not looked at.
DeleteBlob ==
    /\ pc = "deleting"
    /\ delIdx <= Len(azFiles)
    /\ calls' = Append(calls, ClientCall("getBlobClient", azFiles[delIdx]))
    /\ \E outcome \in {"resolves", "rejects", "getBlobClientThrows"} :
         IF outcome = "getBlobClientThrows"
         THEN /\ pc' = "rejected"
              /\ UNCHANGED deleted
         ELSE /\ deleted' = Append(deleted, [name |-> azFiles[delIdx],
                                              ok |-> outcome = "resolves"])
              /\ pc' = "awaitDelete"
    /\ UNCHANGED <<envVars, grouped, listVars, saveVars, azFiles, delIdx>>

\* Lines 13-18: delete() resolves, or it rejects and the catch logs; the loop
\* goes on.
DeleteSettles ==
    /\ pc = "awaitDelete"
    /\ delIdx' = AfterDelete(azFiles, delIdx, deleted[Len(deleted)].ok)
    /\ pc' = "deleting"
    /\ UNCHANGED <<envVars, calls, grouped, listVars, saveVars, azFiles, deleted>>

\* Line 19: the loop is over and the promise resolves.
RemoveReturn ==
    /\ pc = "deleting"
    /\ delIdx > Len(azFiles)
    /\ pc' = "removed"
    /\ UNCHANGED <<envVars, calls, grouped, listVars, saveVars, delVars>>

\* ------------------------------------------------------------ specification

Next ==
    \/ CheckConfig
    \/ Connect
    \/ ExistsSettles
    \/ ListBlob
    \/ ListThrows
    \/ ListEnd
    \/ Main
    \/ BeginSave
    \/ SaveGroup
    \/ WriteSettles
    \/ ExportCsv
    \/ ExportJson
    \/ JsonSettles
    \/ SaveEarliestFileRecords
    \/ EarliestSettles

NextRemove ==
    \/ RemoveBegin
    \/ DeleteBlob
    \/ DeleteSettles
    \/ RemoveReturn

Spec == Init /\ [][Next]_vars

SpecExcess == InitExcess /\ [][Next]_vars

SpecKeys == InitKeys /\ [][Next]_vars

SpecOrder == InitOrder /\ [][Next]_vars

\* The deletion utility on its own.
SpecRemove == InitRemove /\ [][NextRemove]_vars

\* ------------------------------------------------------------------ claims

\* What the claims speak of, stated on the listing itself.
HasSlash(name) == \E i \in DOMAIN name : name[i] = "/"

\* For every name a listing can hold: whether it is root-level, and its key.
NameFacts ==
    [name \in {blob.name : blob \in MainPool \cup ExcessPool \cup KeyPool \cup OrderPool} |->
        [root |-> ~HasSlash(name), key |-> GetGroupKey(name)]]

IsRootKeyed(blob, key) == NameFacts[blob.name].root /\ NameFacts[blob.name].key = key

\* The root-level records of a key, in listing order.
ListingOrderGroup(key) == SelectSeq(listed, LAMBDA blob : IsRootKeyed(blob, key))

Range(files) == {files[i] : i \in DOMAIN files}

RECURSIVE Flatten(_)
Flatten(seqs) == IF seqs = <<>> THEN <<>> ELSE Head(seqs) \o Flatten(Tail(seqs))

\* The entries the save loop has passed or is at (awaiting the write).
Passed == SubSeq(sortedGroupEntries, 1, IF pc = "writing" THEN g ELSE g - 1)

InSaveLoop == pc \in {"saveLoop", "writing", "csv", "json", "saveEarliest"}

\* The same, and while the excess-only report is being written (earliestTotals
\* is then in the order of its own sort).
InSavePhase == InSaveLoop \/ pc = "earliestWriting"

\* The least defined lastModified of a group, Undefined if it has none.
LeastDefined(files) ==
    LET defined == {files[i].lastModified : i \in DOMAIN files} \ {Undefined}
    IN  IF defined = {} THEN Undefined
        ELSE CHOOSE t \in defined : \A u \in defined : t <= u

\* x is strictly before y in "ascending, absent last".
StrictlyBefore(x, y) ==
    \/ x # Undefined /\ y = Undefined
    \/ x # Undefined /\ y # Undefined /\ x < y

MapIndex(key) == CHOOSE i \in DOMAIN groupedFiles : groupedFiles[i].key = key

\* C1: while the save loop runs, earliestTotals is, for the qualifying groups
\* passed so far and in that order, the first n-2 records of the group in
\* listing order; the last two in listing order are not in it, and the two
\* parts make up the group in listing order.
RetentionOnListingOrder ==
    InSaveLoop =>
        LET originals == [i \in DOMAIN Passed |-> ListingOrderGroup(Passed[i].key)]
        IN  /\ earliestTotals =
                  Flatten([i \in DOMAIN Passed |->
                     IF Len(originals[i]) >= 3
                     THEN SubSeq(originals[i], 1, Len(originals[i]) - 2)
                     ELSE <<>>])
            /\ \A i \in DOMAIN Passed :
                  LET original == originals[i]
                      n == Len(original)
                      kept == SubSeq(original, n - 1, n)
                  IN  n >= 3 =>
                        /\ Len(kept) = 2
                        /\ \A j \in DOMAIN kept, k \in DOMAIN earliestTotals :
                              earliestTotals[k].name # kept[j].name
                        /\ SelectSeq(earliestTotals,
                               LAMBDA f : IsRootKeyed(f, Passed[i].key)) \o kept = original

\* C1 witness: a qualifying group whose name order differs from its listing
\* order has been split.
RetentionWitness ==
    /\ pc = "saveLoop"
    /\ Len(earliestTotals) > 0
    /\ \E i \in DOMAIN Passed :
          /\ Len(Passed[i].files) >= 3
          /\ Passed[i].files # ListingOrderGroup(Passed[i].key)

\* The number of records in the groups of a Map.
RECURSIVE SumSizes(_)
SumSizes(map) == IF map = <<>> THEN 0 ELSE Len(Head(map).files) + SumSizes(Tail(map))

\* C2: up to the save phase, the groups partition the root-level records of
\* the listing: each group is exactly the root-level records of its key in
\* listing order, keys are unique, nested records are in no group, and
\* nestedFileCount plus the group sizes is totalFilesConsidered.
GroupingIsPartition ==
    pc \in {"listing", "returned", "save"} =>
        /\ totalFilesConsidered = Len(listed)
        /\ nestedFileCount = Cardinality({i \in DOMAIN listed : HasSlash(listed[i].name)})
        /\ nestedFileCount + SumSizes(groupedFiles) = totalFilesConsidered
        /\ \A i, j \in DOMAIN groupedFiles :
              groupedFiles[i].key = groupedFiles[j].key => i = j
        /\ \A i \in DOMAIN groupedFiles :
              /\ groupedFiles[i].files = ListingOrderGroup(groupedFiles[i].key)
              /\ \A j \in DOMAIN groupedFiles[i].files :
                    ~HasSlash(groupedFiles[i].files[j].name)
        /\ \A i \in DOMAIN listed :
              ~HasSlash(listed[i].name) =>
                 \E k \in DOMAIN groupedFiles :
                    groupedFiles[k].key = GetGroupKey(listed[i].name)

\* C2 witness: a finished listing with a skipped record and two groups, one of
\* them with several records.
GroupingWitness ==
    /\ pc = "returned"
    /\ grouped
    /\ nestedFileCount > 0
    /\ Len(groupedFiles) >= 2
    /\ \E i \in DOMAIN groupedFiles : Len(groupedFiles[i].files) >= 2

\* C3 (as claimed): the key of every grouped record is the part of its name
\* before the first '.', and the whole name when the name has no '.'.
KeyIsPrefixOrWholeName ==
    \A i \in DOMAIN groupedFiles :
       \A j \in DOMAIN groupedFiles[i].files :
          LET name == groupedFiles[i].files[j].name
              dots == {k \in DOMAIN name : name[k] = "."}
          IN  groupedFiles[i].key =
                 IF dots = {} THEN name
                 ELSE SubSeq(name, 1, (CHOOSE k \in dots : \A l \in dots : k <= l) - 1)

\* C4 (as claimed): when a write of a group report has failed, the run still
\* ends with a write attempted for every qualifying group, for both aggregate
\* exports and for the excess-only report.
WriteFailureDoesNotAbort ==
    (pc = "finished" /\ \E i \in DOMAIN writes : writes[i].kind = "group" /\ ~writes[i].ok) =>
        /\ \A e \in DOMAIN sortedGroupEntries :
              Len(sortedGroupEntries[e].files) >= 3 =>
                 \E i \in DOMAIN writes :
                    writes[i].kind = "group" /\ writes[i].key = sortedGroupEntries[e].key
        /\ \A kind \in {"csv", "json", "earliest"} :
              \E i \in DOMAIN writes : writes[i].kind = kind

\* C5 (as claimed): the deletions attempted are, at every step, those of the
\* first names of the list, in list order and one per name; and once the loop
\* has looked at a name, the call ends only normally and only after a deletion
\* has been attempted for every name of the list.
DeletionIsBestEffort ==
    /\ Len(deleted) = IF pc = "awaitDelete" THEN delIdx ELSE delIdx - 1
    /\ \A i \in DOMAIN deleted : i <= Len(azFiles) /\ deleted[i].name = azFiles[i]
    /\ (/\ pc \in {"removed", "rejected"}
        /\ \E c \in DOMAIN calls : calls[c].op = "getBlobClient") =>
          /\ pc = "removed"
          /\ Len(deleted) = Len(azFiles)

\* C6 (as claimed): in the excess-only report, of two records with a defined
\* lastModified the strictly earlier one comes first.
ExcessReportSortedByLastModified ==
    \A w \in DOMAIN writes :
       writes[w].kind = "earliest" =>
          \A i, j \in DOMAIN writes[w].records :
             LET a == writes[w].records[i].lastModified
                 b == writes[w].records[j].lastModified
             IN  (i < j /\ a # Undefined /\ b # Undefined) => ~(b < a)

\* C7: the sorted entries are the groups of the Map, ascending by their least
\* defined lastModified with the groups that have none last, and groups that
\* compare equal in their order in the Map; the reports are written in that order.
GroupsOrderedByEarliest ==
    InSavePhase =>
        /\ Len(sortedGroupEntries) = Len(groupedFiles)
        /\ \A k \in DOMAIN groupedFiles :
              \E i \in DOMAIN sortedGroupEntries :
                 sortedGroupEntries[i].key = groupedFiles[k].key
        /\ \A i, j \in DOMAIN sortedGroupEntries :
              i < j =>
                 LET ei == LeastDefined(sortedGroupEntries[i].files)
                     ej == LeastDefined(sortedGroupEntries[j].files)
                 IN  /\ ~StrictlyBefore(ej, ei)
                     /\ ~StrictlyBefore(ei, ej) =>
                           MapIndex(sortedGroupEntries[i].key)
                              < MapIndex(sortedGroupEntries[j].key)
        /\ LET reports == SelectSeq(writes, LAMBDA w : w.kind = "group")
               due == SelectSeq(Passed, LAMBDA e : Len(e.files) >= 3)
           IN  [i \in DOMAIN reports |-> reports[i].key]
                  = [i \in DOMAIN due |-> due[i].key]

\* C7 witness: the loop is over for three groups; the first two of the Map are
\* both without a timestamp and the third has one; the third was moved to the
\* front, the other two follow in their order in the Map, and the report of
\* the one of them that qualifies has been written.
OrderingWitness ==
    /\ pc = "saveLoop"
    /\ g > Len(sortedGroupEntries)
    /\ Len(groupedFiles) = 3
    /\ LeastDefined(groupedFiles[1].files) = Undefined
    /\ LeastDefined(groupedFiles[2].files) = Undefined
    /\ LeastDefined(groupedFiles[3].files) # Undefined
    /\ [i \in 1..3 |-> sortedGroupEntries[i].key]
          = <<groupedFiles[3].key, groupedFiles[1].key, groupedFiles[2].key>>
    /\ \E w \in DOMAIN writes : writes[w].kind = "group" /\ writes[w].ok

\* Reached under SpecOrder as well: two groups with the same defined earliest
\* timestamp, in their order in the Map, ahead of a group without one.
OrderingEqualTieReached ==
    /\ pc = "saveLoop"
    /\ Len(sortedGroupEntries) = 3
    /\ LeastDefined(sortedGroupEntries[1].files) # Undefined
    /\ LeastDefined(sortedGroupEntries[1].files)
          = LeastDefined(sortedGroupEntries[2].files)
    /\ LeastDefined(sortedGroupEntries[3].files) = Undefined
    /\ MapIndex(sortedGroupEntries[3].key) = 1

\* Reached under SpecOrder as well: two reports written in the sorted order,
\* which is not the order of the two groups in the Map.
OrderingReportsReordered ==
    LET reports == SelectSeq(writes, LAMBDA w : w.kind = "group")
    IN  /\ Len(reports) = 2
        /\ MapIndex(reports[2].key) < MapIndex(reports[1].key)

\* files holds the records of original, each once, ascending by name.
IsGroupByName(files, original) ==
    /\ Len(files) = Len(original)
    /\ {files[i] : i \in DOMAIN files} = {original[i] : i \in DOMAIN original}
    /\ \A i \in 1..(Len(files) - 1) : LocaleCompare(files[i].name, files[i + 1].name) < 0

\* The files of the entries whose group in the listing qualifies, one entry
\* after the other.
ExpectedAllData(entries, originals) ==
    Flatten([i \in DOMAIN entries |->
               IF Len(originals[i]) >= 3 THEN entries[i].files ELSE <<>>])

\* C8: alldata holds, for the qualifying groups passed so far and in the order
\* of the sorted entries, exactly the records of the group, each once, in
\* ascending name order; a group of fewer than three records adds nothing to
\* alldata or earliestTotals and gets no report; and the aggregate exports are
\* handed alldata for all the qualifying groups.
AggregateExportsHoldQualifyingGroups ==
    InSavePhase =>
        LET originals == [i \in DOMAIN sortedGroupEntries |->
                             ListingOrderGroup(sortedGroupEntries[i].key)]
        IN  /\ alldata = ExpectedAllData(Passed, originals)
            /\ \A i \in DOMAIN Passed :
                  LET key == Passed[i].key
                  IN  IF Len(originals[i]) >= 3
                      THEN IsGroupByName(Passed[i].files, originals[i])
                      ELSE /\ \A w \in DOMAIN writes : writes[w].key # key
                           /\ \A k \in DOMAIN alldata : alldata[k] \notin Range(originals[i])
                           /\ \A k \in DOMAIN earliestTotals :
                                 earliestTotals[k] \notin Range(originals[i])
            /\ \A w \in DOMAIN writes :
                  writes[w].kind \in {"csv", "json"} =>
                     /\ writes[w].records = ExpectedAllData(sortedGroupEntries, originals)
                     /\ Len(writes[w].records) > 0

\* C8 witness: the exports were handed the records of two qualifying groups.
AggregateWitness ==
    /\ pc = "saveEarliest"
    /\ \E w \in DOMAIN writes : writes[w].kind = "json" /\ writes[w].ok
    /\ Cardinality({e \in DOMAIN sortedGroupEntries :
                       Len(sortedGroupEntries[e].files) >= 3}) = 2

\* reorderAndSaveGroupedFiles has been called or has left a trace.
SavePhaseEntered ==
    \/ pc \in {"save", "saveLoop", "writing", "csv", "json", "saveEarliest",
              "earliestWriting"}
    \/ dirCreated
    \/ writes # <<>>
    \/ sortedGroupEntries # <<>>

\* C9: with the connection string or the container name missing, no call is
\* made on the storage client, no Map is returned, and the save phase is not
\* entered: no directory made, no file written.  The save phase is entered
\* only with the Map of a listing that ran to its end.
ConfigurationErrorsFailFast ==
    /\ (connectionString = "" \/ containerName = "") =>
          /\ calls = <<>>
          /\ listed = <<>>
          /\ ~grouped
          /\ ~SavePhaseEntered
    /\ SavePhaseEntered =>
          /\ grouped
          /\ calls # <<>>
          /\ calls[Len(calls)].op = "listBlobsFlat"
          /\ totalFilesConsidered = Len(listed)

\* C9 witness: a run without a container name has finished.
FailFastWitness ==
    /\ pc = "finished"
    /\ connectionString # ""
    /\ containerName = ""

\* C10 (as claimed): two reports of different groups never go to the same path.
NoReportOverwritten ==
    \A i, j \in DOMAIN writes :
       (/\ writes[i].kind = "group"
        /\ writes[j].kind = "group"
        /\ writes[i].key # writes[j].key) => writes[i].path # writes[j].path

====
